---- MODULE Spec2Model ----
(***************************************************************************)
(* Model of interview_recorder.py: the InterviewRecorder object (recording *)
(* session, Tk event loop, deferred callbacks), the transcription worker   *)
(* threads, and the RunPod submit/poll protocol.                           *)
(*                                                                         *)
(* Threads.  The Tk main thread runs one handler at a time (an action per  *)
(* handler).  Each threading.Thread(target=self.transcribe_file) is a job  *)
(* with its own program counter; a job step is a block of lines between    *)
(* two points where the main thread can see or change what the job uses.   *)
(* root.after(0, f) appends f to after_queue; the main loop runs queued    *)
(* callbacks one at a time, interleaved with user events.                  *)
(*                                                                         *)
(* Not state of the model: the texts of the status line, the timer and the *)
(* file label, and the message boxes; a callback that only sets one of     *)
(* them is not put in after_queue.  The three check boxes (transcribe,     *)
(* keep audio, use server) can be ticked at any moment, so what a handler  *)
(* or a worker reads from them is an input of its action; so is what is on *)
(* disk next to an audio file that the program did not write.              *)
(***************************************************************************)
EXTENDS Integers, Sequences, FiniteSets, TLC

\* Bounds of the model.
MaxRec == 1          \* recordings started from the record button
MaxStarts == 2       \* calls of start_recording when the method is called directly
MaxJobs == 2         \* transcription worker threads alive at a time
MaxQueue == 4        \* callbacks scheduled with root.after and not yet run
MaxElapsed == 0      \* seconds a recording lasts while the whole application is followed

VARIABLES
  \* InterviewRecorder fields (__init__, lines 96-101)
  recording, process, start_time, output_file, meter, meter_level, transcribing,
  \* the state of the two buttons (setup_ui)
  record_btn, transcribe_file_btn,
  \* the text of the timer label (timer_var, line 122)
  timer_var,
  \* the Tk event loop
  mainloop, after_queue, ticks,
  \* the environment: credential, encoder processes, level monitors, files
  env_key, encoders, meters, files, nrec,
  \* the worker threads running transcribe_file
  jobs,
  \* what the last step did that the user or the disk could see
  event,
  \* one remote transcription followed request by request
  remote,
  \* one chunk of samples and the level computed from it
  sample,
  \* one payload and what format_dialogue_to_text makes of it
  formatted,
  \* one job of the serverless worker and what handler returns for it
  handled

fields == <<recording, process, start_time, output_file, meter, meter_level, transcribing>>
widgets == <<record_btn, transcribe_file_btn, timer_var>>
loop == <<mainloop, after_queue, ticks>>
world == <<env_key, encoders, meters, files, nrec>>
appvars == <<fields, widgets, loop, world, jobs, event>>
pure == <<remote, sample, formatted, handled>>
vars == <<appvars, pure>>

\* Paths: 1..MaxStarts are the output files of the recordings (line 265, one
\* timestamped name per start_recording); OtherFile is an audio file that
\* exists on disk and belongs to no recording.
OtherFile == 0
Paths == 0..MaxStarts
NoFile == -1         \* output_file = None
NoProc == 0          \* process = None, meter = None

\* A file is missing, empty (created, zero bytes), partial (an encoder is
\* still appending to it) or final (complete).
FileStates == {"missing", "empty", "partial", "final"}

NoExc == [cls |-> "none", what |-> "none", detail |-> "none"]

NewEncoder == [state |-> "none", sig |-> "none"]

\* An AudioMeter (lines 31-35) and its thread.  running and process are the
\* fields (process: "None" or the handle "Popen"); pc is where the thread
\* running _read_audio is ("none": not started, "l50": before the capture
\* process is spawned, "loop": at the loop condition, "callback": a level
\* computed and not yet delivered, "done"); level is that level; capture is
\* the capture process ("none", "running", "terminated", or
\* "terminated_twice" when terminate() was called on it again).
NewMeter == [running |-> FALSE, process |-> "None", pc |-> "none", level |-> 0,
             capture |-> "none"]

\* A worker thread: where it is in transcribe_file, and its argument.
NoJob == [pc |-> "none", filepath |-> NoFile]

\* What a step did.  op: the handler or the part of a job that ran; env and
\* elapsed: what start_recording found on the machine, and the seconds
\* update_timer computed; out:
\* what a handler showed or raised; spawned: a worker thread was started on
\* path, which was in state fstate; live: the transcriber of the job opened
\* path while an encoder was writing it; for a job that ended: its mode, what it caught (exc),
\* what the transcriber gave (result), whether it read the audio, sent a
\* request, found a transcript (txt) and deleted the audio; blocked: the
\* calls of the step that return only when a process has been spawned or
\* has ended.
NoEvent == [op |-> "none", env |-> "none", elapsed |-> -1,
            out |-> "none", spawned |-> FALSE, path |-> NoFile,
            fstate |-> "none", live |-> FALSE, mode |-> "none", exc |-> NoExc,
            result |-> "none", audio_read |-> FALSE, sent |-> FALSE,
            txt |-> "none", deleted |-> FALSE, blocked |-> {}]


\* The text "00:00:00" (lines 122, 321), one string per character.
timer_zero == <<"0", "0", ":", "0", "0", ":", "0", "0">>

\* No chunk has been measured; no payload has been formatted.
NoSample == [chunk |-> <<>>, level |-> 0]
Absent == "absent"
NonePayload == [kind |-> "None", error |-> Absent, dialogue |-> <<>>, language |-> Absent,
                num_speakers |-> -1]
NoFormatted == [phase |-> "idle", input |-> NonePayload, raised |-> "none", lines |-> <<>>]

\* No job of the worker is being followed.
NoHandled ==
  [phase |-> "idle",
   input |-> [audio_url |-> Absent, audio_base64 |-> Absent, language |-> Absent,
              format |-> Absent, hf_token |-> Absent],
   machine |-> [diarize_model |-> FALSE, whisperx |-> "ok"],
   result |-> [returned |-> "none", error |-> "none", steps |-> <<>>]]

\* No remote transcription is being followed.
NoRemote == [phase |-> "idle", fstate |-> "none", script |-> "none", outcome |-> "none",
             printed |-> NoExc, dialog |-> "none"]

\* InterviewRecorder.__init__ and setup_ui; the credential is an input.
Init ==
  /\ recording = FALSE
  /\ process = NoProc
  /\ start_time = "None"
  /\ output_file = NoFile
  /\ meter = NoProc
  /\ meter_level = 0
  /\ transcribing = FALSE
  /\ record_btn = "normal"
  /\ transcribe_file_btn = "normal"
  /\ timer_var = timer_zero
  /\ mainloop = "running"
  /\ after_queue = <<>>
  /\ ticks = 0
  /\ env_key \in BOOLEAN
  /\ encoders = [r \in 1..MaxStarts |-> NewEncoder]
  /\ meters = [r \in 1..MaxStarts |-> NewMeter]
  /\ files = [f \in Paths |-> IF f = OtherFile THEN "final" ELSE "missing"]
  /\ nrec = 0
  /\ jobs = [j \in 1..MaxJobs |-> NoJob]
  /\ event = NoEvent
  /\ remote = NoRemote
  /\ sample = NoSample
  /\ formatted = NoFormatted
  /\ handled = NoHandled

----------------------------------------------------------------------------
(***************************************************************************)
(* Texts.  A text is a sequence of one-character strings; a number is      *)
(* written digit by digit, as the format specifications of the code do.    *)
(***************************************************************************)
Digit(d) == <<"0", "1", "2", "3", "4", "5", "6", "7", "8", "9">>[d + 1]

\* str(n) for n >= 0.
RECURSIVE decimal(_)
decimal(n) == IF n < 10 THEN <<Digit(n)>> ELSE Append(decimal(n \div 10), Digit(n % 10))

\* A format that does not pad (variant of pad2).
pad2_none(n) == decimal(n)

\* The format specification 02d for n >= 0: at least two digits, padded
\* with zeros on the left.
pad2(n) == IF n < 10 THEN <<"0">> \o decimal(n) ELSE decimal(n)

\* The timer text of update_timer (lines 633-634).
timer_text(elapsed) ==
  LET h == elapsed \div 3600
      m == (elapsed % 3600) \div 60
      sec == elapsed % 60
  IN pad2(h) \o <<":">> \o pad2(m) \o <<":">> \o pad2(sec)

----------------------------------------------------------------------------
(***************************************************************************)
(* The level monitor: AudioMeter.                                          *)
(***************************************************************************)
MaxChunk == 3        \* samples in a chunk
MaxRawLevel == 140   \* levels tried when the scaled RMS is truncated

\* Signed 16-bit samples (struct format "h", line 79): the extremes, the
\* values around one unit of the divisor, and values in between.
Samples == {-32768, -32767, -328, -1, 0, 327, 328, 23170, 32767}

RECURSIVE SeqsUpTo(_, _)
SeqsUpTo(S, n) ==
  IF n = 0 THEN {<<>>}
  ELSE SeqsUpTo(S, n - 1) \cup {Append(c, x) : c \in {d \in SeqsUpTo(S, n - 1) : Len(d) = n - 1}, x \in S}
Chunks == SeqsUpTo(Samples, MaxChunk) \ {<<>>}

\* The divisor 327.67 of line 82, in hundredths (variant: 327.68).
divisor_x100_pow2 == 32767 + 1
divisor_x100 == 32767

\* sum(...) of line 81 over the first i elements of c.
RECURSIVE SumOver(_, _)
SumOver(c, i) == IF i = 0 THEN 0 ELSE c[i] + SumOver(c, i - 1)

\* rms / 327.67 >= k, with rms = (sum(s*s) / len) ** 0.5 (lines 81-82), in
\* exact arithmetic: mean >= (327.67 k)^2, both sides as an integer part
\* and a fraction so that every intermediate value fits 32 bits.
reaches(chunk, k) ==
  LET n == Len(chunk)
      quo == [i \in 1..n |-> (chunk[i] * chunk[i]) \div n]
      rem == [i \in 1..n |-> (chunk[i] * chunk[i]) % n]
      r0 == SumOver(rem, n)
      mean_int == SumOver(quo, n) + (r0 \div n)
      mean_num == r0 % n                              \* fraction mean_num / n
      q == (divisor_x100 * k) \div 100
      r == (divisor_x100 * k) % 100
      f == 200 * q * r + r * r
      thr_int == q * q + (f \div 10000)
      thr_num == f % 10000                            \* fraction thr_num / 10000
  IN \/ mean_int > thr_int
     \/ mean_int = thr_int /\ mean_num * 10000 >= thr_num * n

\* int(rms / 327.67), line 82.
raw_level(chunk) == Cardinality({k \in 1..MaxRawLevel : reaches(chunk, k)})

\* level = min(100, int(rms / 327.67)), line 82.
level_of(chunk) == IF raw_level(chunk) < 100 THEN raw_level(chunk) ELSE 100

\* AudioMeter.start on the monitor m (lines 37-40).
meter_start(ms, m) == [ms EXCEPT ![m].running = TRUE, ![m].pc = "l50"]

\* The capture process c after terminate() (line 45).
terminated(c) == IF c = "running" THEN "terminated" ELSE "terminated_twice"

\* An AudioMeter.stop that keeps the handle (variant of meter_stop).
meter_stop_keep(ms, m) ==
  [ms EXCEPT ![m].running = FALSE,
             ![m].capture = IF ms[m].process = "Popen" THEN terminated(@) ELSE @]

\* AudioMeter.stop on the monitor m (lines 42-46).
meter_stop(ms, m) ==
  [ms EXCEPT ![m].running = FALSE,
             ![m].capture = IF ms[m].process = "Popen" THEN terminated(@) ELSE @,
             ![m].process = "None"]

\* _read_audio, lines 50-70: the sink lookup and the spawn of the capture
\* process; ok is whether both programs can be run (an exception is printed
\* at line 86 and ends the thread).
meter_spawn(m, ok) ==
  /\ meters[m].pc = "l50"
  /\ meters' = IF ok THEN [meters EXCEPT ![m].process = "Popen", ![m].capture = "running",
                                         ![m].pc = "loop"]
                ELSE [meters EXCEPT ![m].pc = "done"]
  /\ event' = [NoEvent EXCEPT !.op = "meter_spawn", !.path = m]
  /\ UNCHANGED <<fields, widgets, loop, env_key, encoders, files, nrec, jobs>>

\* Chunks the capture process delivers while a session is followed.
SessionChunks == {<<0, 0>>, <<32767, -32767>>}
SessionLevel == [c \in SessionChunks |-> level_of(c)]

\* _read_audio, lines 74-82: the loop condition, then the read of a chunk.
\* A terminated capture process gives end of file (line 76); a live one
\* gives a chunk, or (data = <<>>) a read of odd length, on which
\* struct.unpack raises and the thread ends (line 85).
meter_read(m, data) ==
  /\ meters[m].pc = "loop"
  /\ meters' =
       IF ~(meters[m].running /\ meters[m].process = "Popen") THEN [meters EXCEPT ![m].pc = "done"]
       ELSE IF meters[m].capture # "running" \/ data = <<>> THEN [meters EXCEPT ![m].pc = "done"]
       ELSE [meters EXCEPT ![m].pc = "callback", ![m].level = SessionLevel[data]]
  /\ event' = [NoEvent EXCEPT !.op = "meter_read", !.path = m]
  /\ UNCHANGED <<fields, widgets, loop, env_key, encoders, files, nrec, jobs>>

\* _read_audio, line 83: self.callback(level), which is update_meter
\* (lines 242-244) run on the monitor's thread.
meter_callback(m) ==
  /\ meters[m].pc = "callback"
  /\ meter_level' = meters[m].level
  /\ meters' = [meters EXCEPT ![m].pc = "loop", ![m].level = 0]
  /\ event' = [NoEvent EXCEPT !.op = "meter_callback", !.path = m]
  /\ UNCHANGED <<recording, process, start_time, output_file, meter, transcribing,
                 widgets, loop, env_key, encoders, files, nrec, jobs>>

----------------------------------------------------------------------------
(***************************************************************************)
(* The recording session: start_recording, stop_recording,                 *)
(* toggle_recording.                                                       *)
(***************************************************************************)

\* The threads alive, and the slot a new thread takes.
alive(j) == jobs[j].pc # "none"
free_slots == {j \in 1..MaxJobs : ~alive(j)}
free_slot == CHOOSE j \in free_slots : \A k \in free_slots : j <= k

\* threading.Thread(target=self.transcribe_file, args=(path,)).start():
\* the thread exists, its first line (493) has not run yet.
thread_start(js, path) == [js EXCEPT ![free_slot] = [pc |-> "l493", filepath |-> path]]

\* A stop that kills the encoder outright (variant of stop_signal).
stop_signal_kill == "SIGKILL"

\* The signal stop_recording sends to the encoder (line 314).
stop_signal == "SIGINT"

\* send_signal + wait on the encoder p (lines 314-315): a running encoder
\* gets the signal (Popen.send_signal sends nothing to a process that has
\* already exited), and it has exited and been reaped when wait returns.
encoder_quiesce(es, p) ==
  [es EXCEPT ![p] = [state |-> "reaped",
                     sig |-> IF es[p].state = "running" THEN stop_signal ELSE es[p].sig]]

\* An encoder that has ended leaves the file it was appending to complete.
finalize(fs, p) == [fs EXCEPT ![p] = IF fs[p] = "partial" THEN "final" ELSE fs[p]]

\* The file check of stop_recording (line 326).
file_ok(fs, f) == f # NoFile /\ fs[f] # "missing"

\* What start_recording can find on the machine: "ok"; "no_sink" (pactl
\* runs and prints no sink: get_default_sink returns "", line 255);
\* "no_pactl" (pactl cannot be run: subprocess.run raises, line 254);
\* "no_ffmpeg" (Popen raises, line 288; caught, message box, return).
StartEnvs == {"ok", "no_sink", "no_pactl", "no_ffmpeg"}

\* start_recording (lines 263-304).
start_recording(env) ==
  /\ nrec' = nrec + 1
  /\ output_file' = nrec + 1
  /\ IF env = "no_pactl" THEN
       /\ event' = [NoEvent EXCEPT !.op = "start_recording", !.env = env,
                                    !.out = "FileNotFoundError",
                                    !.blocked = {"subprocess.run"}]
       /\ UNCHANGED <<recording, process, start_time, meter,
                      transcribe_file_btn, ticks, encoders, meters>>
     ELSE IF env = "no_ffmpeg" THEN
       /\ event' = [NoEvent EXCEPT !.op = "start_recording", !.env = env,
                                    !.out = "showerror",
                                    !.blocked = {"subprocess.run", "Popen"}]
       /\ UNCHANGED <<recording, process, start_time, meter,
                      transcribe_file_btn, ticks, encoders, meters>>
     ELSE
       /\ event' = [NoEvent EXCEPT !.op = "start_recording", !.env = env, !.out = "ok",
                                    !.blocked = {"subprocess.run", "Popen"}]
       /\ process' = nrec + 1
       /\ encoders' = [encoders EXCEPT ![nrec + 1] = [state |-> "running", sig |-> "none"]]
       /\ meter' = nrec + 1
       /\ meters' = meter_start(meters, nrec + 1)
       /\ recording' = TRUE
       /\ start_time' = "set"
       /\ transcribe_file_btn' = "disabled"
       /\ ticks' = ticks + 1          \* update_timer: the first tick is scheduled
  /\ UNCHANGED <<meter_level, transcribing, record_btn, timer_var, mainloop,
                 after_queue, env_key, files, jobs>>

\* stop_recording (lines 306-342); transcribe and keep_audio are the check
\* boxes as read at lines 334 and 340.
stop_recording(transcribe, keep_audio) ==
  LET es == IF process # NoProc THEN encoder_quiesce(encoders, process) ELSE encoders
      fs == IF process # NoProc THEN finalize(files, process) ELSE files
      checked == start_time # "None"             \* line 323 raises otherwise
      spawn == checked /\ file_ok(fs, output_file) /\ transcribe
      remove == checked /\ file_ok(fs, output_file) /\ ~keep_audio /\ ~transcribe
  IN
  /\ spawn => free_slots # {}
  /\ meters' = IF meter # NoProc THEN meter_stop(meters, meter) ELSE meters
  /\ meter' = NoProc
  /\ meter_level' = 0
  /\ encoders' = es
  /\ process' = NoProc
  /\ recording' = FALSE
  /\ transcribe_file_btn' = "normal"
  /\ timer_var' = timer_zero
  /\ event' = [NoEvent EXCEPT
       !.op = "stop_recording",
       !.out = IF ~checked THEN "TypeError"
               ELSE IF ~file_ok(fs, output_file) THEN "rec_failed"   \* lines 327-329
               ELSE "ok",
       !.spawned = spawn,
       !.path = output_file,
       !.fstate = IF output_file = NoFile THEN "none" ELSE fs[output_file],
       !.deleted = remove,
       !.blocked = IF process # NoProc THEN {"wait"} ELSE {}]     \* line 315
  /\ jobs' = IF spawn THEN thread_start(jobs, output_file) ELSE jobs
  /\ files' = IF remove THEN [fs EXCEPT ![output_file] = "missing"] ELSE fs
  /\ UNCHANGED <<start_time, output_file, transcribing, record_btn,
                 mainloop, after_queue, ticks, env_key, nrec>>

\* What the event loop runs (root.mainloop, line 647): the commands of the
\* buttons (lines 193-197, 208-212), the WM_DELETE_WINDOW handler, and the
\* callbacks scheduled with root.after.
loop_handlers ==
  {"start_recording", "stop_recording", "transcribe_existing_file", "on_close",
   "update_timer", "callback"}

\* toggle_recording (lines 257-261), the command of record_btn.
toggle_recording ==
  IF recording THEN \E t \in BOOLEAN, k \in BOOLEAN : stop_recording(t, k)
  ELSE \E env \in StartEnvs : start_recording(env)

----------------------------------------------------------------------------
(***************************************************************************)
(* The RunPod protocol: transcribe_on_server and _poll_runpod_result.      *)
(* The network is an input: a script fixes the response to the submission  *)
(* and to every status request.  The functions are computed request by     *)
(* request as the code does, and return what they raise or return together *)
(* with the requests they issued.                                          *)
(***************************************************************************)
max_attempts == 120      \* line 463
poll_sleep == 5          \* line 480: time.sleep(5)
MaxPending == 122        \* longest run of IN_QUEUE / IN_PROGRESS answers in a script
MaxIterations == 124     \* iterations of the poll loop that are followed

\* What a request can run into below the HTTP payload: requests.ConnectionError,
\* requests.Timeout (the per-call timeout), or raise_for_status on a non-2xx.
NetFailures == {"connection_error", "timeout", "http_error"}

\* Output payloads (the dialogue output shape): a dialogue object, an object
\* with an error field, or no output at all (None).
Payloads == {"dialogue", "error_payload", "null"}

\* Responses to the submission POST.
SubmitResponses ==
  [net : NetFailures, has_output : {FALSE}, has_id : {FALSE}, output : {"null"}]
  \cup [net : {"ok"}, has_output : {TRUE}, has_id : BOOLEAN, output : {"dialogue", "error_payload"}]
  \cup [net : {"ok"}, has_output : {FALSE}, has_id : BOOLEAN, output : {"null"}]

\* Terminal (or never-ending) answers of the status endpoint.
StatusResponses ==
  [net : NetFailures, status : {"none"}, output : {"null"}, error : {"absent"}]
  \cup [net : {"ok"}, status : {"COMPLETED"}, output : Payloads, error : {"absent"}]
  \cup [net : {"ok"}, status : {"FAILED"}, output : {"null"}, error : {"oom", "absent"}]
  \cup [net : {"ok"}, status : {"IN_QUEUE", "IN_PROGRESS", "CANCELLED", "none"},
        output : {"null"}, error : {"absent"}]

\* A script: the submission response, then `pending` answers that alternate
\* IN_QUEUE / IN_PROGRESS, then `final` for every later status request.
Scripts == [submit : SubmitResponses, pending : 0..MaxPending, final : StatusResponses]

status_response(script, i) ==
  IF i <= script.pending
  THEN [net |-> "ok", status |-> IF i % 2 = 1 THEN "IN_QUEUE" ELSE "IN_PROGRESS",
        output |-> "null", error |-> "absent"]
  ELSE script.final

\* An exception: its class, the message template (by the line that raises
\* it) and the text the template embeds.
Exc(cls, what, detail) == [cls |-> cls, what |-> what, detail |-> detail]

\* What a call did: the exception it raised (NoExc: it returned `output`),
\* and its traffic: reads of the audio file, POSTs, status GETs, seconds slept.
Outcome(exc, output, reads, posts, polls, slept) ==
  [exc |-> exc, output |-> output, reads |-> reads, posts |-> posts,
   polls |-> polls, slept |-> slept]

\* A loop condition that is off by one (variant of poll_again).
poll_again_inclusive(attempt) == attempt <= max_attempts

\* The loop condition of _poll_runpod_result (line 466).
poll_again(attempt) == attempt < max_attempts

\* The exception a failed status request is wrapped into (lines 486-487).
poll_request_error(net) == Exc("ValueError", "poll_error", net)

\* A FAILED status reported without the error field of the response
\* (variant of job_failed_error).
job_failed_error_generic(r) == Exc("ValueError", "job_failed", "Unknown error")

\* The exception for status FAILED (lines 475-477).
job_failed_error(r) ==
  Exc("ValueError", "job_failed", IF r.error = "absent" THEN "Unknown error" ELSE r.error)

\* A loop that polls on for every status that is not final (variant of
\* pending_status).
pending_status_lenient(status) == status \notin {"COMPLETED", "FAILED"}

\* The statuses on which the loop goes on (line 478).
pending_status(status) == status \in {"IN_QUEUE", "IN_PROGRESS"}

\* The locals of _poll_runpod_result while its loop runs: attempt, the GETs
\* issued and the seconds slept so far; done once it has returned `output`
\* or raised `exc`.
poll_start == [attempt |-> 0, polls |-> 0, slept |-> 0, done |-> FALSE,
               exc |-> NoExc, output |-> "null"]
poll_raise(st, e) == [st EXCEPT !.done = TRUE, !.exc = e]
poll_return(st, out) == [st EXCEPT !.done = TRUE, !.output = out]

\* One evaluation of the loop condition and one pass of the loop body
\* (lines 466-487); the raise after the loop (line 489) when the condition
\* fails.
poll_iteration(script, st) ==
  IF poll_again(st.attempt) THEN
    LET r == status_response(script, st.polls + 1)
        st1 == [st EXCEPT !.polls = @ + 1]
    IN
    IF r.net # "ok" THEN poll_raise(st1, poll_request_error(r.net))
    ELSE IF r.status = "COMPLETED" THEN poll_return(st1, r.output)
    ELSE IF r.status = "FAILED" THEN poll_raise(st1, job_failed_error(r))
    ELSE IF pending_status(r.status) THEN
      [st1 EXCEPT !.attempt = @ + 1, !.slept = @ + poll_sleep]
    ELSE poll_raise(st1, Exc("ValueError", "unknown_status", r.status))
  ELSE poll_raise(st, Exc("TimeoutError", "poll_timeout", "none"))

\* The while loop run for at most n iterations (stopping when done), the
\* n iterations split in halves to keep the evaluation shallow.
RECURSIVE poll_loop(_, _, _)
poll_loop(script, st, n) ==
  IF st.done \/ n = 0 THEN st
  ELSE IF n = 1 THEN poll_iteration(script, st)
  ELSE poll_loop(script, poll_loop(script, st, n \div 2), n - (n \div 2))

\* _poll_runpod_result (lines 455-489).  A loop still running after
\* MaxIterations iterations is reported as the exception "diverged".
poll_runpod_result(script) ==
  LET st == poll_loop(script, poll_start, MaxIterations) IN
  Outcome(IF st.done THEN st.exc ELSE Exc("none", "diverged", "none"),
          st.output, 0, 0, st.polls, st.slept)

\* A submission whose every failure is wrapped the same way (variant of
\* submit_request_error).
submit_request_error_wrapped(net) == Exc("ValueError", "request_error", net)

\* The exception a failed submission is turned into (lines 450-453).
submit_request_error(net) ==
  IF net = "timeout" THEN Exc("TimeoutError", "submit_timeout", "none")
  ELSE Exc("ValueError", "request_error", net)

\* A transcribe_on_server that does not look at the credential (variant of
\* precheck).
precheck_file_only(key, fstate) ==
  IF fstate = "missing" THEN Exc("FileNotFoundError", "stat", "none") ELSE NoExc

\* transcribe_on_server before it reads the file (lines 391-398): the
\* credential check, then Path.stat, which raises on a missing file.
precheck(key, fstate) ==
  IF ~key THEN Exc("ValueError", "missing_key", "none")
  ELSE IF fstate = "missing" THEN Exc("FileNotFoundError", "stat", "none")
  ELSE NoExc

\* transcribe_on_server (lines 389-453) with the credential `key` (present
\* or not), the audio file in state `fstate`, and the network `script`.
transcribe_on_server(key, fstate, script) ==
  IF precheck(key, fstate) # NoExc THEN
    Outcome(precheck(key, fstate), "null", 0, 0, 0, 0)
  ELSE
    LET r == script.submit IN
    IF r.net # "ok" THEN Outcome(submit_request_error(r.net), "null", 1, 1, 0, 0)
    ELSE IF r.has_output THEN Outcome(NoExc, r.output, 1, 1, 0, 0)
    ELSE IF r.has_id THEN
      [poll_runpod_result(script) EXCEPT !.reads = 1, !.posts = 1]
    ELSE Outcome(Exc("ValueError", "bad_format", "none"), "null", 1, 1, 0, 0)

\* The error kinds of the design, by what the code raises.
RemoteRequestFailed(e) == e.cls = "ValueError" /\ e.what \in {"request_error", "poll_error"}
RemoteTimeout(e) == e.cls = "TimeoutError"
RemoteJobFailed(e) == e.cls = "ValueError" /\ e.what = "job_failed"
MissingCredential(e) == e.cls = "ValueError" /\ e.what = "missing_key"

\* What the except clause of _transcribe_on_server_wrapper catches and
\* prints (lines 559-560) after transcribe_on_server ended with outcome o:
\* the exception of the call, or the TypeError of format_dialogue_to_text
\* on an absent output ('error' in None, line 363).
caught(o) ==
  IF o.exc # NoExc THEN o.exc
  ELSE IF o.output = "null" THEN Exc("TypeError", "format", "none")
  ELSE NoExc

----------------------------------------------------------------------------
(***************************************************************************)
(* The application: user events, the event loop, the worker threads.       *)
(***************************************************************************)
cb(w, v) == [w |-> w, v |-> v]

\* on_close (lines 641-644), the WM_DELETE_WINDOW handler.  root.quit ends
\* the main loop and the process with it: the daemon threads and the
\* callbacks still scheduled are gone.
on_close ==
  /\ IF recording
     THEN \E t \in BOOLEAN, k \in BOOLEAN :
            LET es == IF process # NoProc THEN encoder_quiesce(encoders, process) ELSE encoders
                fs == IF process # NoProc THEN finalize(files, process) ELSE files
                remove == file_ok(fs, output_file) /\ ~k /\ ~t
            IN
            /\ meters' = IF meter # NoProc THEN meter_stop(meters, meter) ELSE meters
            /\ meter' = NoProc
            /\ meter_level' = 0
            /\ encoders' = es
            /\ process' = NoProc
            /\ recording' = FALSE
            /\ transcribe_file_btn' = "normal"
            /\ timer_var' = timer_zero
            /\ files' = IF remove THEN [fs EXCEPT ![output_file] = "missing"] ELSE fs
            /\ event' = [NoEvent EXCEPT !.op = "on_close",
                           !.out = IF file_ok(fs, output_file) THEN "ok" ELSE "rec_failed",
                           !.path = output_file, !.fstate = fs[output_file],
                           !.deleted = remove,
                           !.blocked = IF process # NoProc THEN {"wait"} ELSE {}]
     ELSE /\ event' = [NoEvent EXCEPT !.op = "on_close", !.out = "ok"]
          /\ UNCHANGED <<recording, process, meter, meter_level, transcribe_file_btn,
                         timer_var, encoders, meters, files>>
  /\ mainloop' = "quit"
  /\ jobs' = [j \in 1..MaxJobs |-> NoJob]
  /\ after_queue' = <<>>
  /\ ticks' = 0
  /\ UNCHANGED <<start_time, output_file, transcribing, record_btn, env_key, nrec>>

\* What the file dialog can return: nothing (cancelled), or a file that exists.
DialogChoices == {NoFile} \cup {f \in Paths : files[f] # "missing"}

\* The busy check of transcribe_existing_file (line 345).
busy == transcribing

\* transcribe_existing_file (lines 344-359), the command of
\* transcribe_file_btn; choice is what the file dialog returns.
transcribe_existing_file(choice) ==
  /\ IF busy THEN
       /\ event' = [NoEvent EXCEPT !.op = "transcribe_existing_file", !.out = "showwarning"]
       /\ UNCHANGED jobs
     ELSE IF choice = NoFile THEN
       /\ event' = [NoEvent EXCEPT !.op = "transcribe_existing_file", !.out = "ok"]
       /\ UNCHANGED jobs
     ELSE
       /\ free_slots # {}
       /\ event' = [NoEvent EXCEPT !.op = "transcribe_existing_file", !.out = "ok",
                      !.spawned = TRUE, !.path = choice, !.fstate = files[choice]]
       /\ jobs' = thread_start(jobs, choice)
  /\ UNCHANGED <<fields, widgets, loop, world>>

\* update_timer (lines 630-635) run by the event loop, elapsed being
\* int(time.time() - self.start_time): while recording it shows the time
\* and reschedules itself; otherwise its chain of ticks ends.
update_timer(elapsed) ==
  /\ ticks > 0
  /\ ticks' = IF recording THEN ticks ELSE ticks - 1
  /\ timer_var' = IF recording THEN timer_text(elapsed) ELSE timer_var
  /\ event' = [NoEvent EXCEPT !.op = "update_timer",
                               !.elapsed = IF recording THEN elapsed ELSE -1]
  /\ UNCHANGED <<fields, record_btn, transcribe_file_btn, mainloop, after_queue, world, jobs>>

\* The event loop runs the oldest callback scheduled with root.after(0, ...).
run_callback ==
  /\ after_queue # <<>>
  /\ LET c == Head(after_queue) IN
     /\ record_btn' = IF c.w = "record_btn" THEN c.v ELSE record_btn
     /\ transcribe_file_btn' = IF c.w = "transcribe_file_btn" THEN c.v ELSE transcribe_file_btn
  /\ after_queue' = Tail(after_queue)
  /\ event' = [NoEvent EXCEPT !.op = "callback"]
  /\ UNCHANGED <<fields, timer_var, mainloop, ticks, world, jobs>>

----------------------------------------------------------------------------
\* The worker thread of job j.

\* The encoder of the recording that writes path f is alive.
live(f) == f \in 1..MaxStarts /\ encoders[f].state = "running"

\* transcribe_file, lines 493-496: the busy flag, then the callbacks that
\* disable the two buttons.
transcribe_file_begin(j) ==
  /\ jobs[j].pc = "l493"
  /\ Len(after_queue) + 2 <= MaxQueue
  /\ transcribing' = TRUE
  /\ after_queue' = after_queue \o <<cb("record_btn", "disabled"),
                                     cb("transcribe_file_btn", "disabled")>>
  /\ jobs' = [jobs EXCEPT ![j].pc = "l499"]
  /\ event' = [NoEvent EXCEPT !.op = "begin", !.path = jobs[j].filepath]
  /\ UNCHANGED <<recording, process, start_time, output_file, meter, meter_level,
                 widgets, mainloop, ticks, world>>

\* transcribe_file, lines 499-529: ffprobe reads the file (its failure is
\* swallowed, line 506); then the Tk variables are read and the messages
\* printed, outside any try: `raised` is an exception there, which ends the
\* thread; otherwise the mode is chosen from the use-server box as read at
\* line 518.
transcribe_file_dispatch(j, raised, use_server) ==
  /\ jobs[j].pc = "l499"
  /\ jobs' = [jobs EXCEPT ![j] = IF raised THEN NoJob
                                 ELSE [@ EXCEPT !.pc = IF use_server THEN "server" ELSE "local"]]
  /\ event' = [NoEvent EXCEPT !.op = "dispatch", !.path = jobs[j].filepath,
                 !.out = IF raised THEN "uncaught" ELSE "ok"]
  /\ UNCHANGED <<fields, widgets, loop, world>>

\* The callbacks of the finally clauses (lines 565-566, 626-627).
finally_callbacks == <<cb("record_btn", "normal"), cb("transcribe_file_btn", "normal")>>

\* The busy flag as the finally clauses leave it (lines 564, 625).
finally_flag == FALSE

\* The end of a job in _transcribe_on_server_wrapper or _transcribe_locally:
\* the except clause, if any, has run; the finally clause (lines 563-567,
\* 624-628) runs and the thread ends.  ev is what the job did.
finish(j, ev) ==
  /\ Len(after_queue) + 2 <= MaxQueue
  /\ transcribing' = finally_flag
  /\ after_queue' = after_queue \o finally_callbacks
  /\ jobs' = [jobs EXCEPT ![j] = NoJob]
  /\ event' = [ev EXCEPT !.op = "finished", !.path = jobs[j].filepath]
  /\ UNCHANGED <<recording, process, start_time, output_file, meter, meter_level,
                 widgets, mainloop, ticks, env_key, encoders, meters, nrec>>

\* _transcribe_on_server_wrapper up to the read of the audio file
\* (lines 533-535, 391-405).
server_read(j) ==
  LET fp == jobs[j].filepath
      e == precheck(env_key, files[fp])
  IN
  /\ jobs[j].pc = "server"
  /\ IF e # NoExc THEN
       /\ finish(j, [NoEvent EXCEPT !.mode = "server", !.exc = e])
       /\ UNCHANGED files
     ELSE
       /\ jobs' = [jobs EXCEPT ![j].pc = "l427"]
       /\ event' = [NoEvent EXCEPT !.op = "read", !.path = fp, !.live = live(fp)]
       /\ UNCHANGED <<fields, widgets, loop, world>>

\* Every way transcribe_on_server can end once it has read the file, over
\* all network scripts: what it raised (less the text embedded in the
\* message) or returned.
ServerOutcomes ==
  {[exc |-> [o.exc EXCEPT !.detail = "none"], output |-> o.output] :
     o \in {transcribe_on_server(TRUE, "final", s) : s \in Scripts}}

\* The test that guards os.remove after a transcription (lines 555, 606);
\* keep_audio is the box as read there.
delete_audio(filepath, keep_audio) == ~keep_audio /\ filepath = output_file

\* _transcribe_on_server_wrapper from the submission on (lines 427-453,
\* 537-567): the network exchange, then format, write the transcript,
\* delete the audio; any exception goes to the except clause.
server_finish(j, keep_audio) ==
  LET fp == jobs[j].filepath
      del == delete_audio(fp, keep_audio)
  IN
  /\ jobs[j].pc = "l427"
  /\ \E o \in ServerOutcomes :
       LET e == caught(o)
           ev == [NoEvent EXCEPT !.mode = "server", !.audio_read = TRUE, !.sent = TRUE,
                                 !.result = o.output]
       IN
       IF e # NoExc THEN
         /\ finish(j, [ev EXCEPT !.exc = e])
         /\ UNCHANGED files
       ELSE IF del /\ files[fp] = "missing" THEN          \* os.remove raises
         /\ finish(j, [ev EXCEPT !.txt = "written",
                                 !.exc = Exc("FileNotFoundError", "remove", "none")])
         /\ UNCHANGED files
       ELSE
         /\ finish(j, [ev EXCEPT !.txt = "written", !.deleted = del])
         /\ files' = IF del THEN [files EXCEPT ![fp] = "missing"] ELSE files

\* What the except clauses of _transcribe_locally report (lines 613-623):
\* every FileNotFoundError raised in the try block, whatever raised it, is
\* reported as the recognizer not being found.
local_report(exc) ==
  IF exc.cls = "FileNotFoundError" THEN "whisper_not_found" ELSE "error"

\* _transcribe_locally, lines 572-586.  whisper is what the recognizer is:
\* "missing" (cannot be run), "broken" (--help fails), "ok" (the run starts
\* and reads the audio).
local_start(j, whisper) ==
  LET fp == jobs[j].filepath IN
  /\ jobs[j].pc = "local"
  /\ IF whisper \in {"missing", "broken"} THEN
       /\ LET e == Exc("FileNotFoundError", "whisper", "none")
          IN finish(j, [NoEvent EXCEPT !.mode = "local", !.exc = e, !.result = local_report(e)])
       /\ UNCHANGED files
     ELSE
       /\ jobs' = [jobs EXCEPT ![j].pc = "l588"]
       /\ event' = [NoEvent EXCEPT !.op = "read", !.path = fp, !.live = live(fp)]
       /\ UNCHANGED <<fields, widgets, loop, world>>

\* _transcribe_locally, lines 588-628: the recognizer ends; txt says whether
\* <stem>.txt is there: "written" by this run, "stale" (it was there
\* before), "absent".
local_finish(j, txt, keep_audio) ==
  LET fp == jobs[j].filepath
      del == delete_audio(fp, keep_audio)
      ev == [NoEvent EXCEPT !.mode = "local", !.audio_read = TRUE, !.txt = txt]
  IN
  /\ jobs[j].pc = "l588"
  /\ IF txt = "absent" THEN
       /\ finish(j, [ev EXCEPT !.result = "output_missing"])
       /\ UNCHANGED files
     ELSE IF del /\ files[fp] = "missing" THEN            \* os.remove raises
       /\ LET e == Exc("FileNotFoundError", "remove", "none")
          IN finish(j, [ev EXCEPT !.exc = e, !.result = local_report(e)])
       /\ UNCHANGED files
     ELSE
       /\ finish(j, [ev EXCEPT !.result = "transcript", !.deleted = del])
       /\ files' = IF del THEN [files EXCEPT ![fp] = "missing"] ELSE files

----------------------------------------------------------------------------
\* The environment.

\* The encoder r creates its output file, then appends to it.
encoder_writes(r) ==
  /\ encoders[r].state = "running"
  /\ files[r] \in {"missing", "empty"}
  /\ files' = [files EXCEPT ![r] = IF @ = "missing" THEN "empty" ELSE "partial"]
  /\ event' = NoEvent
  /\ UNCHANGED <<fields, widgets, loop, env_key, encoders, meters, nrec, jobs>>

\* The encoder r ends on its own (its input device fails).
encoder_exits(r) ==
  /\ encoders[r].state = "running"
  /\ encoders' = [encoders EXCEPT ![r].state = "exited"]
  /\ files' = finalize(files, r)
  /\ event' = NoEvent
  /\ UNCHANGED <<fields, widgets, loop, env_key, meters, nrec, jobs>>

----------------------------------------------------------------------------
\* The application as the user drives it: a button runs its command only
\* while it is enabled, and nothing runs once the main loop has quit.
running == mainloop = "running"
ClickRecord ==
  /\ running /\ record_btn = "normal"
  /\ recording \/ nrec < MaxRec
  /\ toggle_recording
  /\ UNCHANGED pure
ClickTranscribeFile ==
  /\ running /\ transcribe_file_btn = "normal"
  /\ \E choice \in DialogChoices : transcribe_existing_file(choice)
  /\ UNCHANGED pure
CloseWindow == running /\ on_close /\ UNCHANGED pure
Callback == running /\ run_callback /\ UNCHANGED pure
TimerTick == running /\ (\E t \in 0..MaxElapsed : update_timer(t)) /\ UNCHANGED pure
JobBegin == running /\ (\E j \in 1..MaxJobs : transcribe_file_begin(j)) /\ UNCHANGED pure
JobDispatch ==
  /\ running
  /\ \E j \in 1..MaxJobs, raised \in BOOLEAN, u \in BOOLEAN : transcribe_file_dispatch(j, raised, u)
  /\ UNCHANGED pure
JobServerRead == running /\ (\E j \in 1..MaxJobs : server_read(j)) /\ UNCHANGED pure
JobServerFinish ==
  running /\ (\E j \in 1..MaxJobs, k \in BOOLEAN : server_finish(j, k)) /\ UNCHANGED pure
JobLocalStart ==
  /\ running
  /\ \E j \in 1..MaxJobs, w \in {"missing", "broken", "ok"} : local_start(j, w)
  /\ UNCHANGED pure
JobLocalFinish ==
  /\ running
  /\ \E j \in 1..MaxJobs, t \in {"written", "stale", "absent"}, k \in BOOLEAN :
       local_finish(j, t, k)
  /\ UNCHANGED pure
EncoderWrites == running /\ (\E r \in 1..MaxStarts : encoder_writes(r)) /\ UNCHANGED pure
EncoderExits == running /\ (\E r \in 1..MaxStarts : encoder_exits(r)) /\ UNCHANGED pure

Next ==
  \/ ClickRecord
  \/ ClickTranscribeFile
  \/ CloseWindow
  \/ Callback
  \/ TimerTick
  \/ JobBegin
  \/ JobDispatch
  \/ JobServerRead
  \/ JobServerFinish
  \/ JobLocalStart
  \/ JobLocalFinish
  \/ EncoderWrites
  \/ EncoderExits

Spec == Init /\ [][Next]_vars

----------------------------------------------------------------------------
(***************************************************************************)
(* The methods of InterviewRecorder called directly, as a test or another  *)
(* caller of the class can: start_recording and stop_recording without the *)
(* guards of toggle_recording and of the buttons.  The rest of the         *)
(* application runs as before.                                             *)
(***************************************************************************)
CallStartRecording ==
  /\ running
  /\ nrec < MaxRec
  /\ \E env \in StartEnvs : start_recording(env)
  /\ UNCHANGED pure
CallStopRecording ==
  /\ running
  /\ \E t \in BOOLEAN, k \in BOOLEAN : stop_recording(t, k)
  /\ UNCHANGED pure

NextApi ==
  \/ CallStartRecording
  \/ CallStopRecording
  \/ CloseWindow
  \/ Callback
  \/ TimerTick
  \/ JobBegin
  \/ JobDispatch
  \/ JobServerRead
  \/ JobServerFinish
  \/ JobLocalStart
  \/ JobLocalFinish
  \/ EncoderWrites
  \/ EncoderExits

SpecApi == Init /\ [][NextApi]_vars

----------------------------------------------------------------------------
(***************************************************************************)
(* The recording session on its own: the methods called directly or        *)
(* through the record button, up to MaxStarts recordings.  The threads     *)
(* that the session starts are not scheduled here.                         *)
(***************************************************************************)
SessionStart ==
  /\ running
  /\ nrec < MaxStarts
  /\ \E env \in StartEnvs : start_recording(env)
  /\ UNCHANGED pure
SessionToggle ==
  /\ running
  /\ recording \/ nrec < MaxStarts
  /\ toggle_recording
  /\ UNCHANGED pure

NextSession ==
  \/ SessionStart
  \/ SessionToggle
  \/ CallStopRecording
  \/ CloseWindow
  \/ TimerTick
  \/ EncoderWrites
  \/ EncoderExits

SpecSession == Init /\ [][NextSession]_vars

----------------------------------------------------------------------------
(***************************************************************************)
(* The level monitor on its own: recordings started and stopped from the   *)
(* record button, the thread of every AudioMeter, and AudioMeter.stop      *)
(* called directly on any AudioMeter, started or not.                      *)
(***************************************************************************)
\* meter.stop() called on the AudioMeter m by its owner; the event records
\* whether the call found anything to stop.
meter_stop_call(m) ==
  /\ meters' = meter_stop(meters, m)
  /\ event' = [NoEvent EXCEPT !.op = "meter_stop", !.path = m,
                               !.out = IF meters[m].running \/ meters[m].process = "Popen"
                                       THEN "stopped" ELSE "no_op"]
  /\ UNCHANGED <<fields, widgets, loop, env_key, encoders, files, nrec, jobs>>

CallMeterStop ==
  /\ running
  /\ \E m \in 1..MaxStarts : meter_stop_call(m)
  /\ UNCHANGED pure
MeterSpawn ==
  running /\ (\E m \in 1..MaxStarts, ok \in BOOLEAN : meter_spawn(m, ok)) /\ UNCHANGED pure
MeterRead ==
  /\ running
  /\ \E m \in 1..MaxStarts, data \in SessionChunks \cup {<<>>} : meter_read(m, data)
  /\ UNCHANGED pure
MeterCallback == running /\ (\E m \in 1..MaxStarts : meter_callback(m)) /\ UNCHANGED pure

NextMeter ==
  \/ ClickRecord
  \/ CloseWindow
  \/ CallMeterStop
  \/ MeterSpawn
  \/ MeterRead
  \/ MeterCallback

SpecMeter == Init /\ [][NextMeter]_vars

----------------------------------------------------------------------------
(***************************************************************************)
(* The timer on its own: a recording started and stopped from the record   *)
(* button, and update_timer run at any elapsed time of TimerInputs.        *)
(***************************************************************************)
TimerInputs == (0..130) \cup {3599, 3600, 3661, 86399, 359999, 360000, 360001}

TimerElapsed == running /\ (\E t \in TimerInputs : update_timer(t)) /\ UNCHANGED pure

NextTimer == ClickRecord \/ CloseWindow \/ TimerElapsed

SpecTimer == Init /\ [][NextTimer]_vars

----------------------------------------------------------------------------
(***************************************************************************)
(* format_dialogue_to_text (lines 361-387).  A payload is None or a dict;  *)
(* a dict is a record whose absent keys hold Absent (-1 for a number).     *)
(* Times are in tenths of a second.  A text is the sequence of its lines   *)
(* (the code joins them with newlines), a line the sequence of its pieces. *)
(* The Russian labels of the code are written in Latin letters.            *)
(***************************************************************************)
MaxTurns == 2

Speakers == {"SPEAKER_00", Absent}
Texts == {"hi", Absent}
\* start and end of a turn: 0 s - 5 s, 5.9 s - 60.5 s, 60.5 s - 6000 s, and
\* a turn without the two keys.
Spans == {<<0, 50>>, <<59, 605>>, <<605, 60000>>, <<-1, -1>>}
Turns == {[speaker |-> sp, text |-> tx, start |-> span[1], end |-> span[2]] :
            sp \in Speakers, tx \in Texts, span \in Spans}
Dialogues == SeqsUpTo(Turns, MaxTurns)

dict(error, dialogue, language, num_speakers) ==
  [kind |-> "dict", error |-> error, dialogue |-> dialogue, language |-> language,
   num_speakers |-> num_speakers]

\* What _transcribe_on_server_wrapper can pass at line 541: the absent output
\* of a COMPLETED response (line 474), an error payload, a dialogue.
FormatInputs ==
  {NonePayload, dict("Missing 'audio_url' in input", <<>>, Absent, -1)}
    \cup {dict(Absent, d, lang, n) : d \in Dialogues, lang \in {"en", Absent}, n \in {2, -1}}

\* dict.get(key, default), lines 366-368 and 377-380.
get(v, default) == IF v = Absent THEN default ELSE v
get_number(v, default) == IF v = -1 THEN default ELSE v

\* int(t // 60) and int(t % 60), line 382 (variant: seconds rounded).
minutes(t) == t \div 600
seconds_rounded(t) == ((t % 600) + 5) \div 10
seconds(t) == (t % 600) \div 10

stamp(t) == pad2(minutes(t)) \o <<":">> \o pad2(seconds(t))

\* Line 382.
timestamp(turn) ==
  <<"[">> \o stamp(get_number(turn.start, 0)) \o <<" ", "-", " ">> \o stamp(get_number(turn.end, 0)) \o <<"]">>

\* A string as a line: the empty string has no piece.
line(str) == IF str = "" THEN <<>> ELSE <<str>>

\* Lines 377-385: the three lines of one turn.
turn_lines(turn) ==
  << <<get(turn.speaker, "UNKNOWN"), " ">> \o timestamp(turn) \o <<":">>,
     line(get(turn.text, "")),
     <<>> >>

\* Lines 376-385: the turns in the order of the list.
RECURSIVE dialogue_lines(_)
dialogue_lines(dialogue) ==
  IF dialogue = <<>> THEN <<>>
  ELSE turn_lines(Head(dialogue)) \o dialogue_lines(Tail(dialogue))

\* Lines 370-374.
header_lines(d) ==
  << <<"Yazyk: ", get(d.language, "unknown")>>,
     <<"Kolichestvo spikerov: ">> \o decimal(get_number(d.num_speakers, 0)),
     [i \in 1..60 |-> "="],
     <<>> >>

\* Lines 363-387.  'error' in None raises TypeError (line 363).
format_dialogue_to_text(d) ==
  IF d.kind = "None" THEN [raised |-> "TypeError", lines |-> <<>>]
  ELSE IF d.error # Absent THEN [raised |-> "none", lines |-> << <<"OSHIBKA: ", d.error>> >>]
  ELSE [raised |-> "none", lines |-> header_lines(d) \o dialogue_lines(d.dialogue)]

\* Line 541 on one payload.
Format ==
  /\ formatted.phase = "idle"
  /\ \E d \in FormatInputs :
       LET r == format_dialogue_to_text(d)
       IN formatted' = [phase |-> "done", input |-> d, raised |-> r.raised, lines |-> r.lines]
  /\ UNCHANGED <<appvars, remote, sample, handled>>

\* The next payload.
FormatReset ==
  /\ formatted.phase = "done"
  /\ formatted' = NoFormatted
  /\ UNCHANGED <<appvars, remote, sample, handled>>

NextFormat == Format \/ FormatReset

SpecFormat == Init /\ [][NextFormat]_vars

----------------------------------------------------------------------------
(***************************************************************************)
(* The level of one chunk: lines 79-82 applied to every chunk of Chunks.   *)
(***************************************************************************)
Measure ==
  /\ sample = NoSample
  /\ \E c \in Chunks : sample' = [chunk |-> c, level |-> level_of(c)]
  /\ UNCHANGED <<appvars, remote, formatted, handled>>

\* The next chunk.
NextChunk ==
  /\ sample # NoSample
  /\ sample' = NoSample
  /\ UNCHANGED <<appvars, remote, formatted, handled>>

NextLevel == Measure \/ NextChunk

SpecLevel == Init /\ [][NextLevel]_vars

----------------------------------------------------------------------------
(***************************************************************************)
(* The serverless worker: handler (src/handler.py, lines 72-127) applied   *)
(* to one job.  A job input is a dict, written as a record whose absent    *)
(* keys hold Absent.                                                       *)
(***************************************************************************)
\* audio_url: absent, empty, a URL that can be fetched, one that cannot.
JobInputs ==
  [audio_url : {Absent, "", "https://ok", "https://unreachable"},
   audio_base64 : {Absent, "base64"},
   language : {Absent, "ru", "en"},
   format : {Absent, "dialogue"},
   hf_token : {Absent, "token"}]

\* The request body of the client: the "input" object built by
\* transcribe_on_server (src/interview_recorder.py, lines 409-415).
client_input(lang) ==
  [audio_url |-> Absent, audio_base64 |-> "base64", language |-> lang,
   format |-> "dialogue", hf_token |-> Absent]

\* The worker's machine: whether the diarization model was loaded at start
\* (lines 54-63), and whether the whisperx calls succeed or raise.
Machines == [diarize_model : BOOLEAN, whisperx : {"ok", "raises"}]

\* What handler did: it returned an error value, returned a result or
\* raised; the steps it ran.
HandlerResult(returned, error, steps) ==
  [returned |-> returned, error |-> error, steps |-> steps]

\* Lines 78-79: job_input.get('audio_url'), and the test `not audio_url`.
audio_source(job_input) ==
  IF job_input.audio_url \in {Absent, ""} THEN Absent ELSE job_input.audio_url

\* handler (lines 72-127).
handler(job_input, machine) ==
  LET audio_url == audio_source(job_input) IN
  IF audio_url = Absent THEN
    HandlerResult("error", "Missing 'audio_url' in input", <<>>)           \* line 80
  ELSE IF audio_url = "https://unreachable" THEN
    HandlerResult("error", "Failed to download audio", <<"download">>)     \* lines 95-98
  ELSE IF machine.whisperx = "raises" THEN
    HandlerResult("raised", "none", <<"download", "transcribe">>)          \* lines 102-103
  ELSE IF machine.diarize_model \/ job_input.hf_token # Absent THEN
    HandlerResult("result", "none", <<"download", "transcribe", "align", "diarize">>)
  ELSE
    HandlerResult("result", "none", <<"download", "transcribe", "align">>)

\* The worker takes one job.
Handle ==
  /\ handled.phase = "idle"
  /\ \E job_input \in JobInputs, machine \in Machines :
       handled' = [phase |-> "done", input |-> job_input, machine |-> machine,
                   result |-> handler(job_input, machine)]
  /\ UNCHANGED <<appvars, remote, sample, formatted>>

\* The next job.
HandleReset ==
  /\ handled.phase = "done"
  /\ handled' = NoHandled
  /\ UNCHANGED <<appvars, remote, sample, formatted>>

NextHandler == Handle \/ HandleReset

SpecHandler == Init /\ [][NextHandler]_vars

----------------------------------------------------------------------------
(***************************************************************************)
(* One remote transcription on its own: transcribe_on_server applied to    *)
(* every credential, file state and network script, and what               *)
(* _transcribe_on_server_wrapper makes of the result.                      *)
(***************************************************************************)
\* phase: "idle", "called" (transcribe_on_server has ended with `outcome`),
\* "reported" (the wrapper has handled it: `printed` is the exception its
\* except clause printed, `dialog` what the error box showed).
RemoteState(phase, fstate, script, outcome, printed, dialog) ==
  [phase |-> phase, fstate |-> fstate, script |-> script, outcome |-> outcome,
   printed |-> printed, dialog |-> dialog]

\* self.transcribe_on_server(filepath), line 535.
RemoteCall ==
  /\ remote.phase = "idle"
  /\ \E fstate \in {"missing", "final"}, script \in Scripts :
       remote' = RemoteState("called", fstate, script,
                             transcribe_on_server(env_key, fstate, script), NoExc, "none")
  /\ UNCHANGED <<appvars, sample, formatted, handled>>

\* Lines 537-562.  The except clause prints the exception and schedules the
\* error box with a lambda that reads `e` when the event loop runs it: by
\* then the except clause may have ended and unbound `e`, and the callback
\* raises NameError instead of showing the message.
RemoteReport ==
  /\ remote.phase = "called"
  /\ LET e == caught(remote.outcome) IN
     \E d \in IF e = NoExc THEN {"none"} ELSE {"message", "NameError"} :
       remote' = [remote EXCEPT !.phase = "reported", !.printed = e, !.dialog = d]
  /\ UNCHANGED <<appvars, sample, formatted, handled>>

\* The next transcription.
RemoteReset ==
  /\ remote.phase = "reported"
  /\ remote' = NoRemote
  /\ UNCHANGED <<appvars, sample, formatted, handled>>

NextRemote == RemoteCall \/ RemoteReport \/ RemoteReset

SpecRemote == Init /\ [][NextRemote]_vars

----------------------------------------------------------------------------
(***************************************************************************)
(* Properties.                                                             *)
(***************************************************************************)
AliveJobs == {j \in 1..MaxJobs : alive(j)}

\* C1: at most one transcription runs at a time: in no reachable state are
\* two transcription jobs alive, and no invocation (transcribe-file, or the
\* automatic transcription of stop-recording) starts a job while another
\* one is in flight.
C1_AtMostOneJob == Cardinality(AliveJobs) <= 1

\* C2: every job started by transcribe_file clears the busy flag and
\* re-enables the record control on every exit path, also when a step
\* before the transcriber is entered raises: once no job is left (and the
\* application is still running) the busy flag is down, and once the
\* scheduled callbacks have run the record button is enabled again.
C2_BusyCleared ==
  (running /\ AliveJobs = {}) =>
    /\ ~transcribing
    /\ after_queue = <<>> => record_btn = "normal"

\* C3: stopping a recording never starts transcription on a bad file: when
\* the output file is missing or zero-length after stop, the session
\* reports the recording as failed and starts no transcription job.
C3_NoJobOnBadFile ==
  (event.op = "stop_recording" /\ event.fstate \in {"missing", "empty"}) =>
    (event.out = "rec_failed" /\ ~event.spawned)

\* C4: no transcription job reads a recording's output file while the
\* encoder of that recording is still running (before it has been
\* signalled and waited for).
C4_NoReadOfLiveFile == event.op = "read" => ~event.live

C10_StopQuiesces ==
  [][(recording /\ event'.op \in {"stop_recording", "on_close"}) =>
       /\ ~recording'
       /\ process' = NoProc
       /\ encoders'[process].state = "reaped"
       /\ encoders[process].state = "running" => encoders'[process].sig = "SIGINT"
       /\ encoders'[process].sig \in {"none", "SIGINT"}]_vars

C10_Witness ==
  /\ event.op = "stop_recording" /\ event.out = "rec_failed"
  /\ ~recording /\ process = NoProc
  /\ encoders[event.path] = [state |-> "reaped", sig |-> "SIGINT"]

\* C9: stop_recording on a session that was never started is a no-op: it
\* raises no exception and leaves the state as construction left it.
C9_StopIsNoOp ==
  (event.op = "stop_recording" /\ nrec = 0) =>
    /\ event.out = "ok"
    /\ <<recording, process, start_time, output_file, meter, meter_level>>
         = <<FALSE, NoProc, "None", NoFile, NoProc, 0>>
    /\ record_btn = "normal" /\ transcribe_file_btn = "normal"

----------------------------------------------------------------------------
\* Properties of one remote transcription (SpecRemote).

\* The call got as far as the submission; it entered the poll loop.
submitted == remote.phase # "idle" /\ env_key /\ remote.fstate # "missing"
polled ==
  /\ submitted
  /\ remote.script.submit.net = "ok"
  /\ ~remote.script.submit.has_output
  /\ remote.script.submit.has_id

\* C5: when every poll answers IN_QUEUE or IN_PROGRESS, the loop issues
\* exactly 120 status requests, 5 seconds apart, and ends with
\* RemoteTimeout: no 121st request, no endless loop.
C5_PollCeiling ==
  (polled /\ (\/ remote.script.pending >= 120
              \/ /\ remote.script.final.net = "ok"
                 /\ remote.script.final.status \in {"IN_QUEUE", "IN_PROGRESS"})) =>
    /\ remote.outcome.polls = 120
    /\ remote.outcome.slept = 5 * 120
    /\ remote.outcome.exc = Exc("TimeoutError", "poll_timeout", "none")
    /\ RemoteTimeout(remote.outcome.exc)

C5_Witness ==
  /\ remote.phase = "called" /\ polled
  /\ remote.script.pending = 121
  /\ remote.script.final.status = "COMPLETED"
  /\ remote.outcome.polls = 120
  /\ RemoteTimeout(remote.outcome.exc)

submit_failed == submitted /\ remote.script.submit.net # "ok"
poll_failed == polled /\ remote.script.pending < 120 /\ remote.script.final.net # "ok"

\* C7 as stated: a network-level failure (connection error, per-call
\* timeout, non-2xx) on the submission or on a status poll ends the job at
\* once, with no further request, as RemoteRequestFailed and not as
\* RemoteTimeout.
C7_AsStated ==
  /\ submit_failed =>
       /\ remote.outcome.posts = 1 /\ remote.outcome.polls = 0
       /\ RemoteRequestFailed(remote.outcome.exc)
       /\ ~RemoteTimeout(remote.outcome.exc)
  /\ poll_failed =>
       /\ remote.outcome.posts = 1 /\ remote.outcome.polls = remote.script.pending + 1
       /\ RemoteRequestFailed(remote.outcome.exc)
       /\ ~RemoteTimeout(remote.outcome.exc)

\* C7, amended: a network-level failure on the submission or on a status
\* poll ends the job at once with no further request; it is reported as
\* RemoteRequestFailed, except a per-call timeout of the submission, which
\* is reported as a timeout error (TimeoutError).
C7_NetworkFailure ==
  /\ submit_failed =>
       /\ remote.outcome.posts = 1 /\ remote.outcome.polls = 0
       /\ IF remote.script.submit.net = "timeout"
          THEN remote.outcome.exc = Exc("TimeoutError", "submit_timeout", "none")
          ELSE /\ RemoteRequestFailed(remote.outcome.exc)
               /\ remote.outcome.exc.detail = remote.script.submit.net
  /\ poll_failed =>
       /\ remote.outcome.posts = 1 /\ remote.outcome.polls = remote.script.pending + 1
       /\ RemoteRequestFailed(remote.outcome.exc)
       /\ remote.outcome.exc.detail = remote.script.final.net

C7_Witness ==
  /\ remote.phase = "called" /\ submit_failed
  /\ remote.script.submit.net = "timeout"
  /\ RemoteTimeout(remote.outcome.exc)
  /\ remote.outcome.polls = 0

----------------------------------------------------------------------------
\* Properties of the recording session and of the level monitor.

\* C11: start fails when the encoder cannot be launched (EncoderUnavailable)
\* and when the sink lookup yields nothing (DeviceUnavailable); after
\* either failure the session is idle, holds no encoder process and no
\* level monitor, none is running, and no tick is scheduled.
C11_StartFailures ==
  (event.op = "start_recording" /\ event.env \in {"no_ffmpeg", "no_sink"}) =>
    /\ event.out # "ok"
    /\ ~recording /\ process = NoProc /\ meter = NoProc
    /\ \A r \in 1..MaxStarts : encoders[r].state # "running" /\ ~meters[r].running
    /\ ticks = 0

\* C12: after any sequence of start, stop, toggle and close operations at
\* most one encoder process is alive, and the session is Recording exactly
\* when it holds an encoder-process handle whose process is alive.
C12_OneSession ==
  /\ Cardinality({r \in 1..MaxStarts : encoders[r].state = "running"}) <= 1
  /\ recording <=> (process # NoProc /\ encoders[process].state = "running")

\* C13: once stop() of a level monitor has returned, in every interleaving
\* with the monitor's thread (stop() before the spawn included), no capture
\* process of that monitor is alive; and a stopped recording has stopped
\* its monitor.
C13_StopEndsCapture ==
  /\ \A m \in 1..MaxStarts :
       (meters[m].pc # "none" /\ ~meters[m].running) => meters[m].capture # "running"
  /\ event.op = "stop_recording" => \A m \in 1..MaxStarts : ~meters[m].running

\* C14: LevelMonitor.stop() leaves the monitor not running and without a
\* process handle, never signals a capture process a second time, and on a
\* monitor that is already stopped or was never started it changes nothing;
\* no other monitor is touched.
C14_StopIdempotent ==
  [][event'.op = "meter_stop" =>
       LET m == event'.path IN
         /\ ~meters'[m].running /\ meters'[m].process = "None"
         /\ meters'[m].capture # "terminated_twice"
         /\ (~meters[m].running /\ meters[m].process = "None") => meters'[m] = meters[m]
         /\ \A o \in 1..MaxStarts \ {m} : meters'[o] = meters[o]]_vars

\* A stop() repeated on a monitor whose capture process an earlier stop()
\* has terminated.
C14_Witness ==
  /\ event.op = "meter_stop" /\ event.out = "no_op"
  /\ meters[event.path].capture = "terminated"
  /\ ~meters[event.path].running /\ meters[event.path].process = "None"

\* C15: the level computed for a chunk of signed 16-bit samples is an
\* integer of 0..100; it is 0 for a chunk of zeros, 100 for a chunk whose
\* samples all have the maximum amplitude, and the truncated quotient of
\* the RMS by 327.67 in between (one unit of the divisor is level 1, an
\* amplitude of 1/sqrt(2) of full scale is level 70).
C15_LevelRange ==
  sample # NoSample =>
    LET c == sample.chunk
        L == sample.level
    IN /\ L \in 0..100
       /\ (\A i \in 1..Len(c) : c[i] = 0) => L = 0
       /\ (\A i \in 1..Len(c) : c[i] \in {32767, -32767, -32768}) => L = 100
       /\ c \in {<<327>>, <<-1>>, <<327, -1, 0>>} => L = 0
       /\ c \in {<<328>>, <<-328>>, <<328, -328>>} => L = 1
       /\ c \in {<<23170>>, <<32767, 0>>} => L = 70

\* A full-scale square wave has been measured.
C15_Witness ==
  sample.chunk = <<32767, -32767, 32767>> /\ sample.level = 100

----------------------------------------------------------------------------
\* Properties of the dialogue formatter.

\* C16: the formatter never raises and always returns text, for a dialogue,
\* for an error payload and for the absent output of a COMPLETED response;
\* for an error payload the text is exactly one error line.
C16_FormatterTotal ==
  formatted.phase = "done" =>
    /\ formatted.raised = "none"
    /\ Len(formatted.lines) >= 1
    /\ formatted.input.error # Absent =>
         formatted.lines = << <<"OSHIBKA: ", formatted.input.error>> >>

\* The number written by a sequence of digits.
digit_value(c) == CHOOSE d \in 0..9 : Digit(d) = c
RECURSIVE written_value(_)
written_value(s) ==
  IF s = <<>> THEN 0
  ELSE 10 * written_value(SubSeq(s, 1, Len(s) - 1)) + digit_value(s[Len(s)])
all_digits(s) == \A i \in 1..Len(s) : s[i] \in {Digit(d) : d \in 0..9}

\* s is MM:SS for the time t (tenths of a second) truncated to whole
\* seconds: minutes of at least two digits, zero-padded, and two digits of
\* seconds below 60.
C17_IsStamp(s, t) ==
  LET w == t \div 10
      n == Len(s)
      mm == SubSeq(s, 1, n - 3)
      ss == SubSeq(s, n - 1, n)
  IN /\ n >= 5 /\ s[n - 2] = ":"
     /\ all_digits(mm) /\ all_digits(ss)
     /\ Len(mm) > 2 => mm[1] # "0"
     /\ written_value(mm) = w \div 60
     /\ written_value(ss) = w % 60

\* l is the line '<speaker> [MM:SS - MM:SS]:' of the turn.
C17_IsTurnLine(l, turn) ==
  LET n == Len(l) IN
  /\ n >= 18
  /\ SubSeq(l, 1, 3) = <<get(turn.speaker, "UNKNOWN"), " ", "[">>
  /\ SubSeq(l, n - 1, n) = <<"]", ":">>
  /\ \E i \in 5..(n - 3) :
       /\ SubSeq(l, i - 1, i + 1) = <<" ", "-", " ">>
       /\ C17_IsStamp(SubSeq(l, 4, i - 2), get_number(turn.start, 0))
       /\ C17_IsStamp(SubSeq(l, i + 2, n - 2), get_number(turn.end, 0))

\* The turns of a DialogueResult are in start-time order.
C17_Chronological(d) ==
  \A i, j \in 1..Len(d) : i < j => get_number(d[i].start, 0) <= get_number(d[j].start, 0)

C17_Example ==
  dict(Absent, <<[speaker |-> "SPEAKER_00", text |-> "hi", start |-> 0, end |-> 50]>>, "en", 2)

\* C17: for a DialogueResult (turns in start-time order) the text is four
\* header lines and then, for each turn in that order, the line
\* '<speaker> [MM:SS - MM:SS]:' with start and end truncated to whole seconds
\* and zero-padded, the turn's text, and a blank line; SPEAKER_00, 0, 5, hi
\* gives 'SPEAKER_00 [00:00 - 00:05]:' followed by 'hi'.
C17_TurnLines ==
  (/\ formatted.phase = "done"
   /\ formatted.input.kind = "dict" /\ formatted.input.error = Absent
   /\ C17_Chronological(formatted.input.dialogue)) =>
    LET d == formatted.input.dialogue
        out == formatted.lines
    IN /\ formatted.raised = "none"
       /\ Len(out) = 4 + 3 * Len(d)
       /\ out[1][2] = get(formatted.input.language, "unknown")
       /\ out[4] = <<>>
       /\ \A i \in 1..Len(d) :
            /\ C17_IsTurnLine(out[3 * i + 2], d[i])
            /\ out[3 * i + 3] = line(get(d[i].text, ""))
            /\ out[3 * i + 4] = <<>>
       /\ formatted.input = C17_Example =>
            /\ out[5] = <<"SPEAKER_00", " ", "[", "0", "0", ":", "0", "0", " ", "-", " ",
                          "0", "0", ":", "0", "5", "]", ":">>
            /\ out[6] = <<"hi">>

\* A dialogue of two turns in start-time order has been formatted, the
\* second one starting at 5.9 s.
C17_Witness ==
  /\ formatted.phase = "done" /\ formatted.raised = "none"
  /\ Len(formatted.input.dialogue) = 2
  /\ formatted.input.dialogue[1].start = 0 /\ formatted.input.dialogue[2].start = 59
  /\ Len(formatted.lines) = 10

----------------------------------------------------------------------------
\* Properties of the local transcription, of the timer and of the busy flag.

\* C18: a local job reports RecognizerNotFound exactly when no recognition
\* run was launched; a job whose run has ended succeeds exactly when
\* <stem>.txt exists and reports RecognizerOutputMissing exactly when it is
\* absent; in every outcome the busy flag is released.
C18_LocalOutcomes ==
  (event.op = "finished" /\ event.mode = "local") =>
    /\ event.result = "whisper_not_found" <=> ~event.audio_read
    /\ event.audio_read =>
         /\ event.result = "transcript" <=> event.txt # "absent"
         /\ event.result = "output_missing" <=> event.txt = "absent"
    /\ ~transcribing

\* s is HH:MM:SS for t seconds: HH = t div 3600 in at least two digits and
\* no more than it needs, MM = (t mod 3600) div 60 and SS = t mod 60 in two
\* digits each, both below 60.
C19_IsTimerText(s, t) ==
  LET n == Len(s)
      hh == SubSeq(s, 1, n - 6)
      mm == SubSeq(s, n - 4, n - 3)
      ss == SubSeq(s, n - 1, n)
  IN /\ n >= 8 /\ s[n - 5] = ":" /\ s[n - 2] = ":"
     /\ all_digits(hh) /\ all_digits(mm) /\ all_digits(ss)
     /\ Len(hh) > 2 => hh[1] # "0"
     /\ written_value(hh) = t \div 3600
     /\ written_value(mm) = (t % 3600) \div 60 /\ written_value(mm) \in 0..59
     /\ written_value(ss) = t % 60 /\ written_value(ss) \in 0..59

\* C19: a tick while Recording sets the timer text to HH:MM:SS of the
\* elapsed seconds (zero-padded, MM and SS in 00..59, HH beyond 99 when the
\* time asks for it) and schedules the next tick; a tick while not Recording
\* leaves the text alone and schedules nothing.
C19_TimerTick ==
  [][event'.op = "update_timer" =>
       IF recording
       THEN /\ event'.elapsed >= 0
            /\ C19_IsTimerText(timer_var', event'.elapsed)
            /\ ticks' = ticks
       ELSE /\ timer_var' = timer_var
            /\ ticks' = ticks - 1]_vars

\* A tick at 100 hours and one second of recording.
C19_Witness ==
  /\ event.op = "update_timer" /\ event.elapsed = 360001 /\ recording
  /\ timer_var = <<"1", "0", "0", ":", "0", "0", ":", "0", "1">>
  /\ ticks = 1

\* C20: when the call that dispatches a job returns (its worker thread has
\* been created), the busy flag is already true: no job exists while the
\* flag reads false.
C20_BusyBeforeDispatch ==
  /\ event.spawned => transcribing
  /\ AliveJobs # {} => transcribing

----------------------------------------------------------------------------
\* Properties of the remote job's states.

\* The submission was answered with a job id only, and the status requests
\* reach the final answer of the script before the ceiling of attempts.
C21_Settled == polled /\ remote.script.pending < 120

\* C21: an inline output completes the job with that output and no status
\* request; a job id alone starts the poll loop; neither fails the job
\* without a status request.  In the loop IN_QUEUE and IN_PROGRESS are
\* followed by the next request, COMPLETED returns the embedded output,
\* FAILED fails the job, every other status fails it as unknown status, and
\* the terminal answer is the last status request.
C21_JobStates ==
  LET s == remote.script
      o == remote.outcome
  IN
  (submitted /\ s.submit.net = "ok") =>
    /\ o.posts = 1
    /\ s.submit.has_output => (o.exc = NoExc /\ o.output = s.submit.output /\ o.polls = 0)
    /\ (~s.submit.has_output /\ ~s.submit.has_id) =>
         (o.exc = Exc("ValueError", "bad_format", "none") /\ o.polls = 0)
    /\ polled => o.polls >= 1
    /\ (C21_Settled /\ s.final.net = "ok") =>
         /\ s.final.status \in {"IN_QUEUE", "IN_PROGRESS"} =>
              (o.polls = 120 /\ RemoteTimeout(o.exc))
         /\ s.final.status \notin {"IN_QUEUE", "IN_PROGRESS"} => o.polls = s.pending + 1
         /\ s.final.status = "COMPLETED" => (o.exc = NoExc /\ o.output = s.final.output)
         /\ s.final.status = "FAILED" => RemoteJobFailed(o.exc)
         /\ s.final.status \in {"CANCELLED", "none"} =>
              o.exc = Exc("ValueError", "unknown_status", s.final.status)

\* Two pending answers, then the status CANCELLED on the third request.
C21_Witness ==
  /\ remote.phase = "called" /\ polled
  /\ remote.script.pending = 2
  /\ remote.script.final.net = "ok" /\ remote.script.final.status = "CANCELLED"
  /\ remote.outcome.polls = 3
  /\ remote.outcome.exc = Exc("ValueError", "unknown_status", "CANCELLED")

----------------------------------------------------------------------------
\* Properties of the threads.

\* C22: no handler run by the event loop spawns a process, runs one to its
\* end or waits for one: the sink lookup, the launch of the encoder and the
\* wait for the encoder on stop are done by worker threads.
C22_LoopNeverBlocks ==
  event.op \in loop_handlers => event.blocked = {}

----------------------------------------------------------------------------
\* Properties of the audio file, the level indicator and the controls.

\* C23: stop-recording deletes the audio only when no transcription was
\* requested; a job deletes it only if it is the session's own recording
\* and the job ended without an exception with a transcript of its own: a
\* dialogue for a remote job (not an error payload), a transcript file this
\* run wrote for a local one.
C23_DeleteOnlyAfterSuccess ==
  /\ (event.op \in {"stop_recording", "on_close"} /\ event.deleted) => ~event.spawned
  /\ (event.op = "finished" /\ event.deleted) =>
       /\ event.path = output_file
       /\ event.exc = NoExc
       /\ event.mode = "server" => event.result = "dialogue"
       /\ event.mode = "local" => (event.result = "transcript" /\ event.txt = "written")

\* C24: while no recording is active the level indicator reads 0: after
\* stop-recording has reset it, no callback of the stopped monitor changes
\* it.
C24_LevelStaysZero ==
  ~recording => meter_level = 0

\* C25: in every state the session is not both Recording and Busy.
C25_RecordingExcludesBusy ==
  ~(recording /\ transcribing)

----------------------------------------------------------------------------
\* Properties of the worker's handler.

\* C26: for a job whose input is the client's request body (audio_base64,
\* language, format) the handler goes on to transcription and returns no
\* error value; it returns an error value only when the audio input is
\* absent or cannot be fetched, and then runs no transcription step.
C26_HandlerAcceptsClient ==
  handled.phase = "done" =>
    /\ handled.input \in {client_input(lang) : lang \in {"ru", "en"}} =>
         /\ handled.result.returned # "error"
         /\ \E i \in 1..Len(handled.result.steps) : handled.result.steps[i] = "transcribe"
    /\ handled.result.returned = "error" =>
         /\ \/ handled.input.audio_url \in {Absent, ""}
            \/ handled.input.audio_url = "https://unreachable"
         /\ \A i \in 1..Len(handled.result.steps) :
              handled.result.steps[i] \notin {"transcribe", "align", "diarize"}

====
